---- MODULE Spec2Model ----
(***************************************************************************)
(* Model of ImageDataValidator (src/image_data_validator.py): the          *)
(* constructor scans the configured class directories, runs the four       *)
(* per-file checks on every directory entry, synthesises metadata for the  *)
(* files without EXIF data and keeps a content-hash index for duplicate    *)
(* detection.                                                              *)
(*                                                                         *)
(* Strings whose characters matter are sequences: a path is a sequence of  *)
(* tokens (a name or the separator "/"), a format name or an allowed       *)
(* extension is a sequence of one-character strings.                       *)
(***************************************************************************)
EXTENDS Integers, Sequences, FiniteSets, TLC

VARIABLES
    tree,            \* the file system below "x": directory name -> (entry name -> file)
    images_dir,      \* self.images_dir
    ver_width,       \* self.ver_width
    ver_height,      \* self.ver_height
    ver_extensions,  \* self.ver_extensions
    sizes,           \* self.sizes
    images_hashes,   \* self.images_hashes
    duplicates,      \* self.duplicates
    inconsistencies, \* self.inconsistencies
    dimensions,      \* self.dimensions
    self_images,     \* self.images, NotReturned until _load_images returns
    images,          \* local `images` of _load_images
    sizes_wrapper,   \* local `sizes_wrapper` of _load_images
    di,              \* position of the outer loop in images_dir
    listing,         \* os.listdir(directory) of the directory being iterated
    fi,              \* position of the inner loop in listing
    pc,              \* "dir" | "file" | "done" | "raised"
    error,           \* the exception that ended construction, or "none"
    first_seen,      \* history: hash -> [path, name] of the first file hashed to it
    hashed,          \* history: the paths whose MD5 was computed without an error
    run,             \* "first" or "second" construction of the validator
    prev,            \* the record sets of the previous completed construction
    probe            \* arguments and result of a direct call of check_extension

vars == <<tree, images_dir, ver_width, ver_height, ver_extensions, sizes,
          images_hashes, duplicates, inconsistencies, dimensions, self_images,
          images, sizes_wrapper, di, listing, fi, pc, error, first_seen,
          hashed, run, prev, probe>>

-----------------------------------------------------------------------------
(* Bounds of the model. *)

\* longest images_dir
MaxDirs == 2
\* most entries in the whole tree
MaxEntries == 2
\* longest list of allowed extensions in a direct call of check_extension
MaxExt == 2

-----------------------------------------------------------------------------
(* Strings. *)

Range(s) == {s[i] : i \in DOMAIN s}

\* str.lower() on one character
LowerChar(c) ==
    CASE c = "J" -> "j" [] c = "P" -> "p" [] c = "E" -> "e" [] c = "G" -> "g"
      [] c = "N" -> "n" [] c = "B" -> "b" [] c = "M" -> "m"
      [] OTHER -> c

\* str.lower()
Lower(s) == [i \in DOMAIN s |-> LowerChar(s[i])]

SEP == "/"

\* os.path.join(directory, filename) for a relative file name
PathJoin(directory, filename) ==
    IF directory = <<>> \/ directory[Len(directory)] = SEP
    THEN directory \o <<filename>>
    ELSE directory \o <<SEP, filename>>

\* str.split('/'): the components between separators, empty ones included
RECURSIVE SplitFrom(_, _)
SplitFrom(s, acc) ==
    IF s = <<>> THEN acc
    ELSE IF Head(s) = SEP
         THEN SplitFrom(Tail(s), Append(acc, ""))
         ELSE SplitFrom(Tail(s), [acc EXCEPT ![Len(acc)] = Head(s)])

Split(s) == SplitFrom(s, <<"">>)

\* os.path.basename(path)
Basename(path) == Split(path)[Len(Split(path))]

\* file_path.split('/')[-2]
ParentComponent(path) == Split(path)[Len(Split(path)) - 1]

\* d[k] = v on a dict
DictSet(d, k, v) == [x \in (DOMAIN d) \cup {k} |-> IF x = k THEN v ELSE d[x]]

-----------------------------------------------------------------------------
(* The file system. *)

DirNames == {"A", "B"}
EntryNames == {"f1", "f2"}

JPEG == <<"J", "P", "E", "G">>
PNG == <<"P", "N", "G">>
BMP == <<"B", "M", "P">>
NoFormat == <<>>

\* A directory entry: what the operating system and the image decoder report
\* for it.  decodes: Image.open succeeds; has_getexif: the decoded image class
\* has the _getexif accessor; exif: what _getexif() returns.
File(isdir, bytes, decodes, format, verifies, has_getexif, exif, w, h) ==
    [isdir |-> isdir, bytes |-> bytes, decodes |-> decodes, format |-> format,
     verifies |-> verifies, has_getexif |-> has_getexif, exif |-> exif,
     w |-> w, h |-> h]

SubDir        == File(TRUE,  <<>>,  FALSE, NoFormat, FALSE, FALSE, "None", 0, 0)
EmptyFile     == File(FALSE, <<>>,  FALSE, NoFormat, FALSE, FALSE, "None", 0, 0)
Garbage       == File(FALSE, <<1>>, FALSE, NoFormat, FALSE, FALSE, "None", 0, 0)
JpegGood      == File(FALSE, <<2>>, TRUE,  JPEG,     TRUE,  TRUE,  "dict", 2, 2)
JpegTruncated == File(FALSE, <<3>>, TRUE,  JPEG,     FALSE, TRUE,  "dict", 2, 2)
PngNoExif     == File(FALSE, <<4>>, TRUE,  PNG,      TRUE,  TRUE,  "None", 2, 3)
BmpImage      == File(FALSE, <<5>>, TRUE,  BMP,      TRUE,  FALSE, "None", 2, 2)

\* every kind of entry, for direct calls of a check
FileKinds == {SubDir, EmptyFile, Garbage, JpegGood, JpegTruncated, PngNoExif, BmpImage}

\* the kinds of entry the scanned trees are built from
TreeKinds == {SubDir, EmptyFile, JpegGood, PngNoExif, BmpImage}

Listings == UNION {[S -> TreeKinds] : S \in SUBSET EntryNames}

Trees == {t \in [DirNames -> Listings] :
            Cardinality(DOMAIN t["A"]) + Cardinality(DOMAIN t["B"]) <= MaxEntries}

PathA == <<"x", SEP, "A">>
PathASlash == <<"x", SEP, "A", SEP>>
PathB == <<"x", SEP, "B">>
PathMissing == <<"x", SEP, "M">>
PathRegularFile == <<"x", SEP, "F">>

ConfigPaths == {PathA, PathASlash, PathB, PathMissing, PathRegularFile}

\* the non-empty components of a path
Components(path) == SelectSeq(Split(path), LAMBDA c : c # "")

\* Path(directory).exists(): "x" holds the directories of DirNames and the
\* regular file "F"
PathExists(path) ==
    /\ Len(Components(path)) = 2
    /\ Components(path)[1] = "x"
    /\ Components(path)[2] \in DirNames \cup {"F"}

\* Path(directory).is_dir()
PathIsDir(path) == PathExists(path) /\ Components(path)[2] \in DirNames

\* the entries of an existing directory, by name
Entries(t, path) == t[Components(path)[2]]

\* the orders in which os.listdir may enumerate a directory
ListDir(t, path) ==
    LET names == DOMAIN Entries(t, path)
        n == Cardinality(names)
    IN {s \in [1..n -> names] : \A i, j \in 1..n : i # j => s[i] # s[j]}

-----------------------------------------------------------------------------
(* The decoder and the per-file checks. *)

\* Image.open(file_path) raises an IOError: IsADirectoryError for a directory,
\* UnidentifiedImageError for bytes no decoder accepts
OpenRaises(f) == f.isdir \/ ~f.decodes

\* check_extension comparing the decoded format name as reported
check_extension_no_lower(f, type_extension) ==
    IF OpenRaises(f) THEN FALSE
    ELSE f.format \in Range(type_extension)

check_extension(f, type_extension) ==
    IF OpenRaises(f) THEN FALSE
    ELSE Lower(f.format) \in Range(type_extension)

\* os.stat(file_path).st_size; a directory's own size depends on the file
\* system and is not read again once Image.open has failed on it
StatSize(f) == IF f.isdir THEN 4096 ELSE Len(f.bytes)

\* check_quality letting a zero-byte file through
check_quality_accepts_empty(f) ==
    IF StatSize(f) = 0 THEN TRUE
    ELSE IF OpenRaises(f) THEN FALSE
    ELSE IF ~f.verifies THEN FALSE
    ELSE TRUE

check_quality(f) ==
    IF StatSize(f) = 0 THEN FALSE
    ELSE IF OpenRaises(f) THEN FALSE
    ELSE IF ~f.verifies THEN FALSE
    ELSE TRUE

\* Python values returned by check_metadata
PyFalse == [py |-> "bool", b |-> FALSE]
PyTuple(items) == [py |-> "tuple", items |-> items]

\* bool(v), as `not v` evaluates it
Truthy(v) == IF v.py = "bool" THEN v.b ELSE Len(v.items) > 0

\* img._getexif() on an image class without that accessor raises
\* AttributeError, which `except (IOError, SyntaxError)` does not catch
check_metadata_raises(f) == ~OpenRaises(f) /\ ~f.has_getexif

check_metadata(f) ==
    IF OpenRaises(f) THEN PyFalse
    ELSE IF f.exif = "None" THEN PyFalse
    ELSE PyTuple(<<"True", f.exif>>)

check_dimension(f, width, height) ==
    IF OpenRaises(f) THEN FALSE
    ELSE f.w = width /\ f.h = height

\* create_metadata taking the class from the last path component
create_metadata_last_component(dims, file_path, f) ==
    IF OpenRaises(f) THEN dims
    ELSE Append(dims, [image_name |-> Basename(file_path),
                       width |-> f.w,
                       height |-> f.h,
                       class |-> Basename(file_path)])

\* self.dimensions after create_metadata(file_path)
create_metadata(dims, file_path, f) ==
    IF OpenRaises(f) THEN dims
    ELSE Append(dims, [image_name |-> Basename(file_path),
                       width |-> f.w,
                       height |-> f.h,
                       class |-> ParentComponent(file_path)])

\* what create_metadata returns: None, or the exception it caught
create_metadata_returns(f) == IF OpenRaises(f) THEN "IOError" ELSE "None"

-----------------------------------------------------------------------------
(* Hashing and the duplicate index. *)

ChunkSize == 4096

Min(a, b) == IF a < b THEN a ELSE b

\* hashlib.md5 fed chunk by chunk; the digest is taken to be collision free
Md5Update(state, chunk) == state \o chunk

HexDigest(state) == <<"md5", state>>

RECURSIVE ReadChunks(_, _)
ReadChunks(bytes, state) ==
    IF bytes = <<>> THEN state
    ELSE LET n == Min(ChunkSize, Len(bytes))
         IN ReadChunks(SubSeq(bytes, n + 1, Len(bytes)),
                       Md5Update(state, SubSeq(bytes, 1, n)))

\* open(file_path, "rb") raises for a directory
calculate_md5_raises(f) == f.isdir

calculate_md5(f) == HexDigest(ReadChunks(f.bytes, <<>>))

\* find_duplicate_images storing the name of the latest file with the hash
find_duplicate_images_overwrites(hashes, f, file_name) ==
    IF calculate_md5_raises(f) THEN hashes
    ELSE DictSet(hashes, calculate_md5(f), file_name)

\* self.images_hashes after find_duplicate_images
find_duplicate_images_hashes(hashes, f, file_name) ==
    IF calculate_md5_raises(f) THEN hashes
    ELSE IF calculate_md5(f) \in DOMAIN hashes THEN hashes
    ELSE DictSet(hashes, calculate_md5(f), file_name)

\* self.duplicates after find_duplicate_images
find_duplicate_images_duplicates(dups, hashes, f, file_name, class_name) ==
    IF calculate_md5_raises(f) THEN dups
    ELSE IF calculate_md5(f) \in DOMAIN hashes
    THEN Append(dups, [image_name |-> file_name,
                       class |-> class_name,
                       duplicate_of |-> hashes[calculate_md5(f)]])
    ELSE dups

\* what find_duplicate_images returns: None, or the exception it caught
find_duplicate_images_returns(f) ==
    IF calculate_md5_raises(f) THEN "IOError" ELSE "None"

-----------------------------------------------------------------------------
(* The body of the inner loop of _load_images. *)

Issue(path, err, issue) == [file_path |-> path, error |-> err, issue |-> issue]

AppendIf(cond, s, x) == IF cond THEN Append(s, x) ELSE s

\* self.inconsistencies after the extension and the quality check
after_quality(incs, path, f, exts) ==
    LET i1 == AppendIf(~check_extension(f, exts), incs,
                       Issue(path, "Invalid extension", "Extension check failed"))
    IN AppendIf(~check_quality(f), i1,
                Issue(path, "Corrupted or empty file", "Quality check failed"))

\* self.inconsistencies after all four checks
after_checks(incs, path, f, exts, width, height) ==
    LET i2 == after_quality(incs, path, f, exts)
        i3 == AppendIf(~Truthy(check_metadata(f)), i2,
                       Issue(path, "No metadata", "Metadata check failed"))
    IN AppendIf(~check_dimension(f, width, height), i3,
                Issue(path, "Dimension mismatch", "Dimension check failed"))

\* self.dimensions after the metadata check of the loop body
after_metadata(dims, path, f) ==
    IF ~Truthy(check_metadata(f)) THEN create_metadata(dims, path, f) ELSE dims

-----------------------------------------------------------------------------
(* Construction. *)

NotReturned == [returned |-> FALSE]
NoPrev == [inconsistencies |-> {}, dimensions |-> {}, duplicates |-> {},
           n_duplicates |-> 0]
NoProbe == [called |-> FALSE]

ExpectedWidths == {2}
ExpectedHeights == {2}
ExtensionLists == {<<Lower(JPEG)>>}

ImagesDirs == UNION {[1..n -> ConfigPaths] : n \in 1..MaxDirs}

\* __check_directory_file raises ValueError
check_directory_file_raises(directory) ==
    ~PathExists(directory) \/ ~PathIsDir(directory)

\* __check_directory_file returns any(file.is_file() for file in path.iterdir())
check_directory_file(t, directory) ==
    \E name \in DOMAIN Entries(t, directory) : ~Entries(t, directory)[name].isdir

\* the directory size counted after filtering out what is not a regular file
listdir_len_files_only(t, directory) ==
    Cardinality({name \in DOMAIN Entries(t, directory) :
                    ~Entries(t, directory)[name].isdir})

\* len(os.listdir(directory))
listdir_len(t, directory) == Cardinality(DOMAIN Entries(t, directory))

\* the hash index as a mutable class attribute, shared by every instance
init_images_hashes_shared(old) == old

\* self.images_hashes = {} in __init__; `old` is what an earlier instance held
init_images_hashes(old) == <<>>

\* The assignments of __init__ before the call of _load_images
init_fields(old_hashes) ==
    /\ sizes = <<>>
    /\ images_hashes = init_images_hashes(old_hashes)
    /\ duplicates = <<>>
    /\ inconsistencies = <<>>
    /\ dimensions = <<>>
    /\ self_images = NotReturned
    /\ images = <<>>
    /\ sizes_wrapper = <<>>
    /\ di = 1
    /\ listing = <<>>
    /\ fi = 1
    /\ pc = "dir"
    /\ error = "none"
    /\ first_seen = <<>>
    /\ hashed = {}

Init ==
    /\ tree \in Trees
    /\ images_dir \in ImagesDirs
    /\ ver_width \in ExpectedWidths
    /\ ver_height \in ExpectedHeights
    /\ ver_extensions \in ExtensionLists
    /\ init_fields(<<>>)
    /\ run = "first"
    /\ prev = NoPrev
    /\ probe = NoProbe

config == <<tree, images_dir, ver_width, ver_height, ver_extensions>>

directory == images_dir[di]
filename == listing[fi]
path == PathJoin(directory, filename)
class_name == directory
file == Entries(tree, directory)[filename]

\* for directory in self.images_dir: the directory check raises
DirectoryInvalid ==
    /\ pc = "dir"
    /\ di <= Len(images_dir)
    /\ check_directory_file_raises(directory)
    /\ pc' = "raised"
    /\ error' = "ValueError"
    /\ UNCHANGED <<config, sizes, images_hashes, duplicates, inconsistencies,
                   dimensions, self_images, images, sizes_wrapper, di, listing,
                   fi, first_seen, hashed, run, prev, probe>>

\* the directory holds no regular file: the body of the `if` is skipped
DirectorySkipped ==
    /\ pc = "dir"
    /\ di <= Len(images_dir)
    /\ ~check_directory_file_raises(directory)
    /\ ~check_directory_file(tree, directory)
    /\ di' = di + 1
    /\ UNCHANGED <<config, sizes, images_hashes, duplicates, inconsistencies,
                   dimensions, self_images, images, sizes_wrapper, listing, fi,
                   pc, error, first_seen, hashed, run, prev, probe>>

\* the directory holds a regular file: its size is recorded and it is listed
DirectoryListed ==
    /\ pc = "dir"
    /\ di <= Len(images_dir)
    /\ ~check_directory_file_raises(directory)
    /\ check_directory_file(tree, directory)
    /\ sizes_wrapper' = DictSet(sizes_wrapper, directory, listdir_len(tree, directory))
    /\ listing' \in ListDir(tree, directory)
    /\ fi' = 1
    /\ pc' = "file"
    /\ UNCHANGED <<config, sizes, images_hashes, duplicates, inconsistencies,
                   dimensions, self_images, images, di, error, first_seen,
                   hashed, run, prev, probe>>

\* one iteration of `for filename in os.listdir(directory)` that completes
LoopBody ==
    /\ pc = "file"
    /\ fi <= Len(listing)
    /\ ~check_metadata_raises(file)
    /\ inconsistencies' = after_checks(inconsistencies, path, file,
                                       ver_extensions, ver_width, ver_height)
    /\ dimensions' = after_metadata(dimensions, path, file)
    /\ images' = DictSet(images, path, filename)
    /\ images_hashes' = find_duplicate_images_hashes(images_hashes, file, filename)
    /\ duplicates' = find_duplicate_images_duplicates(duplicates, images_hashes,
                                                      file, filename, class_name)
    /\ first_seen' = IF calculate_md5_raises(file)
                        \/ calculate_md5(file) \in DOMAIN first_seen
                     THEN first_seen
                     ELSE DictSet(first_seen, calculate_md5(file),
                                  [path |-> path, name |-> filename])
    /\ hashed' = IF calculate_md5_raises(file) THEN hashed ELSE hashed \cup {path}
    /\ fi' = fi + 1
    /\ UNCHANGED <<config, sizes, self_images, sizes_wrapper, di, listing, pc,
                   error, run, prev, probe>>

\* one iteration in which check_metadata raises: construction ends there
LoopBodyRaises ==
    /\ pc = "file"
    /\ fi <= Len(listing)
    /\ check_metadata_raises(file)
    /\ inconsistencies' = after_quality(inconsistencies, path, file, ver_extensions)
    /\ pc' = "raised"
    /\ error' = "AttributeError"
    /\ UNCHANGED <<config, sizes, images_hashes, duplicates, dimensions,
                   self_images, images, sizes_wrapper, di, listing, fi,
                   first_seen, hashed, run, prev, probe>>

\* the listing is exhausted: on to the next directory
ListingDone ==
    /\ pc = "file"
    /\ fi > Len(listing)
    /\ di' = di + 1
    /\ pc' = "dir"
    /\ UNCHANGED <<config, sizes, images_hashes, duplicates, inconsistencies,
                   dimensions, self_images, images, sizes_wrapper, listing, fi,
                   error, first_seen, hashed, run, prev, probe>>

\* self.sizes = sizes_wrapper; return images; self.images = <the result>
Return ==
    /\ pc = "dir"
    /\ di > Len(images_dir)
    /\ sizes' = sizes_wrapper
    /\ self_images' = [returned |-> TRUE, value |-> images]
    /\ pc' = "done"
    /\ UNCHANGED <<config, images_hashes, duplicates, inconsistencies,
                   dimensions, images, sizes_wrapper, di, listing, fi, error,
                   first_seen, hashed, run, prev, probe>>

\* the validator is constructed again with the same arguments over the
\* unchanged tree; the record sets of the finished construction are kept
Reconstruct ==
    /\ pc = "done"
    /\ run = "first"
    /\ run' = "second"
    /\ prev' = [inconsistencies |-> Range(inconsistencies),
                dimensions |-> Range(dimensions),
                duplicates |-> Range(duplicates),
                n_duplicates |-> Len(duplicates)]
    /\ sizes' = <<>>
    /\ images_hashes' = init_images_hashes(images_hashes)
    /\ duplicates' = <<>>
    /\ inconsistencies' = <<>>
    /\ dimensions' = <<>>
    /\ self_images' = NotReturned
    /\ images' = <<>>
    /\ sizes_wrapper' = <<>>
    /\ di' = 1
    /\ listing' = <<>>
    /\ fi' = 1
    /\ pc' = "dir"
    /\ error' = "none"
    /\ first_seen' = <<>>
    /\ hashed' = {}
    /\ UNCHANGED <<config, probe>>

Next ==
    \/ DirectoryInvalid
    \/ DirectorySkipped
    \/ DirectoryListed
    \/ LoopBody
    \/ LoopBodyRaises
    \/ ListingDone
    \/ Return
    \/ Reconstruct

Spec == Init /\ [][Next]_vars

-----------------------------------------------------------------------------
(* check_extension called on its own, on any kind of file and any list of  *)
(* allowed names.                                                          *)

AllowedNames == {Lower(JPEG), JPEG, <<"J", "p", "e", "g">>, Lower(PNG)}

AllowedLists == UNION {[1..n -> AllowedNames] : n \in 0..MaxExt}

InitProbe ==
    /\ tree = [d \in DirNames |-> <<>>]
    /\ images_dir = <<>>
    /\ ver_width \in ExpectedWidths
    /\ ver_height \in ExpectedHeights
    /\ ver_extensions \in ExtensionLists
    /\ init_fields(<<>>)
    /\ run = "first"
    /\ prev = NoPrev
    /\ \E f \in FileKinds, allowed \in AllowedLists :
          probe = [called |-> FALSE, file |-> f, allowed |-> allowed]

CallCheckExtension ==
    /\ ~probe.called
    /\ probe' = [called |-> TRUE, file |-> probe.file, allowed |-> probe.allowed,
                 result |-> check_extension(probe.file, probe.allowed)]
    /\ UNCHANGED <<config, sizes, images_hashes, duplicates, inconsistencies,
                   dimensions, self_images, images, sizes_wrapper, di, listing,
                   fi, pc, error, first_seen, hashed, run, prev>>

NextProbe == CallCheckExtension

SpecProbe == InitProbe /\ [][NextProbe]_vars

-----------------------------------------------------------------------------
(* Vocabulary of the properties. *)

\* the file at a path below a configured directory
FileAt(dir, name) == tree[Components(dir)[2]][name]

\* the path of an entry of a configured directory
PathOf(dir, name) == <<"x", SEP, Components(dir)[2], SEP, name>>

\* the file a path of the valid-images mapping leads to
FileOfPath(p) == tree[p[3]][p[5]]

\* the path of the entry the inner loop is at
CurPath == PathOf(directory, filename)

IsZeroByteFile(f) == ~f.isdir /\ Len(f.bytes) = 0

Decodable(f) == ~f.isdir /\ f.decodes

ValidDirectory(dir) ==
    /\ Len(Components(dir)) = 2
    /\ Components(dir)[1] = "x"
    /\ Components(dir)[2] \in DirNames

HasRegularFile(dir) == \E name \in DOMAIN tree[Components(dir)[2]] :
                          ~tree[Components(dir)[2]][name].isdir

\* the records a step appended to the inconsistency log
AppendedIssues == SubSeq(inconsistencies', Len(inconsistencies) + 1,
                         Len(inconsistencies'))

IssuesKept == SubSeq(inconsistencies', 1, Len(inconsistencies)) = inconsistencies

CountIssues(incs, err) == Cardinality({i \in DOMAIN incs : incs[i].error = err})

\* a step of the inner loop that finishes the iteration of the current entry
BodyStep == pc = "file" /\ fi' = fi + 1

\* a step of the inner loop that takes the current entry, finishing or not
EntryStep == pc = "file" /\ fi <= Len(listing) /\ vars' # vars

Finished == pc = "done"

-----------------------------------------------------------------------------
(* C1: whenever find_duplicate_images runs for a file whose content hash   *)
(* is already in the hash index, exactly one Duplicate Record is appended  *)
(* for it, naming in duplicate_of the first file registered with that      *)
(* hash, and the index is left as it was; the first file registered with   *)
(* a hash adds its name to the index and produces no Duplicate Record.     *)
C1_DuplicateOfFirst ==
    [][(BodyStep /\ ~file.isdir) =>
         LET h == <<"md5", file.bytes>>
         IN IF h \in DOMAIN images_hashes
            THEN /\ duplicates' = Append(duplicates,
                                         [image_name |-> filename,
                                          class |-> directory,
                                          duplicate_of |-> first_seen[h].name])
                 /\ images_hashes' = images_hashes
            ELSE /\ duplicates' = duplicates
                 /\ images_hashes' = [x \in DOMAIN images_hashes \cup {h} |->
                                        IF x = h THEN filename ELSE images_hashes[x]]
       ]_vars

\* a file of class x/B was recorded as the duplicate of a file of x/A
C1_Witness ==
    \E i \in DOMAIN duplicates, h \in DOMAIN first_seen :
        /\ duplicates[i].class = PathB
        /\ first_seen[h].path = PathOf(PathA, duplicates[i].duplicate_of)
        /\ FileAt(PathB, duplicates[i].image_name).bytes = h[2]

(* C2: when every configured directory exists and is a directory,          *)
(* construction never raises because of a directory entry: every check     *)
(* returns a value and the scan goes on.                                   *)
C2_NeverRaises ==
    (\A i \in DOMAIN images_dir : ValidDirectory(images_dir[i])) => pc # "raised"

(* C3 as stated: after construction every configured directory that exists *)
(* has an entry in sizes holding its raw number of entries, 0 for an empty *)
(* directory.                                                              *)
C3_Original ==
    Finished =>
        \A i \in DOMAIN images_dir :
            /\ images_dir[i] \in DOMAIN sizes
            /\ sizes[images_dir[i]] = Cardinality(DOMAIN tree[Components(images_dir[i])[2]])

(* C3 amended: after construction, a configured directory that holds at    *)
(* least one regular file has an entry in sizes with its raw number of     *)
(* entries (subdirectories included); a directory without a regular file   *)
(* (empty, or holding subdirectories only) has no entry in sizes and       *)
(* contributes no path to the valid-images mapping.                        *)
C3_SizesOfListedDirectories ==
    Finished =>
        /\ self_images.returned
        /\ \A i \in DOMAIN images_dir :
            LET dir == images_dir[i]
                entries == tree[Components(dir)[2]]
            IN IF HasRegularFile(dir)
               THEN /\ dir \in DOMAIN sizes
                    /\ sizes[dir] = Cardinality(DOMAIN entries)
               ELSE /\ dir \notin DOMAIN sizes
                    /\ \A name \in EntryNames :
                          PathOf(dir, name) \notin DOMAIN self_images.value

\* a finished scan of an empty directory and of a directory holding a
\* regular file next to a subdirectory
C3_Witness ==
    /\ Finished
    /\ \E i, j \in DOMAIN images_dir :
          /\ DOMAIN tree[Components(images_dir[i])[2]] = {}
          /\ images_dir[j] \in DOMAIN sizes
          /\ sizes[images_dir[j]] = 2
          /\ \E name \in DOMAIN tree[Components(images_dir[j])[2]] :
                tree[Components(images_dir[j])[2]][name].isdir

(* C4 as stated: for a zero-byte file exactly one Inconsistency Record is   *)
(* appended, its error is "Corrupted or empty file", and the path is       *)
(* inserted into the valid-images mapping.                                 *)
C4_Original ==
    [][(BodyStep /\ IsZeroByteFile(file)) =>
         /\ IssuesKept
         /\ Len(AppendedIssues) = 1
         /\ AppendedIssues[1].error = "Corrupted or empty file"
         /\ CurPath \in DOMAIN images'
       ]_vars

(* C4 amended: for every zero-byte file the scan processes, the integrity  *)
(* check returns false and four Inconsistency Records are appended for the *)
(* file, one per check in the order Invalid extension, Corrupted or empty  *)
(* file, No metadata, Dimension mismatch, so exactly one of them has the   *)
(* error "Corrupted or empty file"; no Dimension Record is appended and    *)
(* the path is inserted into the valid-images mapping.                     *)
C4_ZeroByteFile ==
    [][(BodyStep /\ IsZeroByteFile(file)) =>
         /\ ~check_quality(file)
         /\ IssuesKept
         /\ Len(AppendedIssues) = 4
         /\ [i \in 1..4 |-> AppendedIssues[i].error]
              = <<"Invalid extension", "Corrupted or empty file",
                  "No metadata", "Dimension mismatch">>
         /\ \A i \in 1..4 : AppendedIssues[i].file_path = CurPath
         /\ dimensions' = dimensions
         /\ CurPath \in DOMAIN images'
         /\ images'[CurPath] = filename
       ]_vars

\* a zero-byte file is in the valid-images mapping, with its one
\* "Corrupted or empty file" record in the log
C4_Witness ==
    \E p \in DOMAIN images :
        /\ IsZeroByteFile(FileOfPath(p))
        /\ \E i \in DOMAIN inconsistencies :
              /\ inconsistencies[i].file_path = p
              /\ inconsistencies[i].error = "Corrupted or empty file"

(* C5: if an entry of images_dir does not exist or is not a directory,     *)
(* construction fails with the ValueError of the directory check, wherever *)
(* the entry stands and whatever the other entries are, and no             *)
(* valid-images mapping is returned.                                       *)
C5_InvalidDirectoryError ==
    (\E i \in DOMAIN images_dir : ~ValidDirectory(images_dir[i])) =>
        /\ ~Finished
        /\ ~self_images.returned
        /\ pc = "raised" => error = "ValueError"

(* C6 as stated: a second scan of the unchanged tree, in any enumeration   *)
(* order, yields the same sets of Inconsistency, Dimension and Duplicate   *)
(* Records as the first.                                                   *)
C6_Original ==
    (run = "second" /\ Finished) =>
        /\ Range(inconsistencies) = prev.inconsistencies
        /\ Range(dimensions) = prev.dimensions
        /\ Range(duplicates) = prev.duplicates

(* C6 amended: two completed scans of the unchanged tree with the same     *)
(* configuration yield, for any two enumeration orders, the same set of    *)
(* Inconsistency Records, the same set of Dimension Records and the same   *)
(* number of Duplicate Records; which file of a group of identical files   *)
(* is reported as the duplicate of which depends on the enumeration order. *)
C6_OrderIndependentRecords ==
    (run = "second" /\ Finished) =>
        /\ Range(inconsistencies) = prev.inconsistencies
        /\ Range(dimensions) = prev.dimensions
        /\ Len(duplicates) = prev.n_duplicates

\* two finished scans that enumerated two identical files in opposite
\* orders, both files with inconsistency and dimension records
C6_Witness ==
    /\ run = "second"
    /\ Finished
    /\ Range(duplicates) # prev.duplicates
    /\ prev.dimensions # {}
    /\ prev.inconsistencies # {}

(* C7 as stated: check_extension returns true exactly when the image       *)
(* decodes and its format name equals an allowed entry with letter case    *)
(* ignored on both sides.                                                  *)
C7_Original ==
    probe.called =>
        (probe.result <=>
            /\ Decodable(probe.file)
            /\ \E i \in DOMAIN probe.allowed :
                  Lower(probe.allowed[i]) = Lower(probe.file.format))

(* C7 amended: check_extension returns true exactly when the image decodes *)
(* and its decoded format name, converted to lower case, is equal to an    *)
(* entry of the allowed list as that entry is written (format JPEG passes  *)
(* for the entry "jpeg", not for "JPEG" or "Jpeg"), and false otherwise,   *)
(* including when the file cannot be decoded.                              *)
C7_LowerCasedFormatInList ==
    probe.called =>
        (probe.result <=>
            /\ Decodable(probe.file)
            /\ \E i \in DOMAIN probe.allowed :
                  /\ Len(probe.allowed[i]) = Len(probe.file.format)
                  /\ \A k \in DOMAIN probe.allowed[i] :
                        probe.allowed[i][k] = LowerChar(probe.file.format[k]))

\* a JPEG image was accepted for the allowed entry "jpeg"
C7_Witness ==
    /\ probe.called
    /\ probe.result
    /\ probe.file.format = JPEG
    /\ probe.allowed = <<Lower(JPEG)>>

\* what the four checks are meant to decide, from the file alone
FailsExtension(f) == ~(Decodable(f) /\ Lower(f.format) \in Range(ver_extensions))
FailsQuality(f) == ~(Decodable(f) /\ Len(f.bytes) > 0 /\ f.verifies)
FailsMetadata(f) == ~(Decodable(f) /\ f.has_getexif /\ f.exif # "None")
FailsDimension(f) == ~(Decodable(f) /\ f.w = ver_width /\ f.h = ver_height)

\* one record per failed check, in the order of the checks
ExpectedIssues(p, f) ==
    (IF FailsExtension(f)
     THEN <<Issue(p, "Invalid extension", "Extension check failed")>> ELSE <<>>)
    \o (IF FailsQuality(f)
        THEN <<Issue(p, "Corrupted or empty file", "Quality check failed")>> ELSE <<>>)
    \o (IF FailsMetadata(f)
        THEN <<Issue(p, "No metadata", "Metadata check failed")>> ELSE <<>>)
    \o (IF FailsDimension(f)
        THEN <<Issue(p, "Dimension mismatch", "Dimension check failed")>> ELSE <<>>)

(* C8: for every entry enumerated in a scanned directory the four checks   *)
(* are evaluated in the order extension, quality, metadata, dimension      *)
(* without short-circuit: the records appended for the file are one per    *)
(* failed check, in that order and contiguous; then the file is inserted   *)
(* into the valid-images mapping and handed to find_duplicate_images,      *)
(* whatever the checks returned.                                           *)
C8_AllChecksThenInsert ==
    [][EntryStep =>
         /\ IssuesKept
         /\ AppendedIssues = ExpectedIssues(CurPath, file)
         /\ CurPath \in DOMAIN images'
         /\ images'[CurPath] = filename
         /\ ~file.isdir => CurPath \in hashed'
       ]_vars

(* C9: a Dimension Record is appended only for a file whose metadata check *)
(* failed.  For such a file a "No metadata" record is appended; if the     *)
(* file decodes, one Dimension Record with its name, decoded width and     *)
(* height and the name of its parent directory as class is appended; if it *)
(* does not decode, create_metadata returns the error and appends nothing. *)
(* The Dimension Records never outnumber the "No metadata" records.        *)
C9_DimensionRecords ==
    [][/\ BodyStep =>
            IF ~Decodable(file) \/ file.exif = "None"
            THEN /\ CountIssues(inconsistencies', "No metadata")
                      = CountIssues(inconsistencies, "No metadata") + 1
                 /\ IF Decodable(file)
                    THEN dimensions' =
                            Append(dimensions,
                                   [image_name |-> filename,
                                    width |-> file.w,
                                    height |-> file.h,
                                    class |-> Components(directory)[2]])
                    ELSE /\ dimensions' = dimensions
                         /\ create_metadata_returns(file) # "None"
            ELSE /\ dimensions' = dimensions
                 /\ CountIssues(inconsistencies', "No metadata")
                      = CountIssues(inconsistencies, "No metadata")
       /\ (~BodyStep /\ ~Finished) => dimensions' = dimensions
       /\ Len(dimensions') <= CountIssues(inconsistencies', "No metadata")
      ]_vars

\* a decodable file without metadata and an undecodable one were processed:
\* two "No metadata" records, one Dimension Record
C9_Witness ==
    /\ Len(dimensions) = 1
    /\ dimensions[1].class = "A"
    /\ dimensions[1].width = 2
    /\ dimensions[1].height = 3
    /\ CountIssues(inconsistencies, "No metadata") = 2

(* C10: for any Directory Set, also one that names the same directory more *)
(* than once, no Duplicate Record describes the file that first inserted   *)
(* its hash into the index, and the number of index entries plus the       *)
(* number of Duplicate Records equals the number of distinct paths of the  *)
(* valid-images mapping that were hashed without an I/O failure.           *)
C10_NoSelfDuplicate ==
    /\ \A i \in DOMAIN duplicates :
          LET p == PathOf(duplicates[i].class, duplicates[i].image_name)
              h == <<"md5", FileOfPath(p).bytes>>
          IN first_seen[h].path # p
    /\ Cardinality(DOMAIN images_hashes) + Len(duplicates)
          = Cardinality(hashed \cap DOMAIN images)

====
